---------------------------- MODULE Spec2Model ----------------------------
(***************************************************************************)
(* A model of nix_derivation_tools: the Derivation class of                *)
(* derivation.py (parsing, the derived views, to_dict, diff, display) and  *)
(* the format default of cli.py.                                           *)
(*                                                                         *)
(* Python values are tagged records [t |-> <type>, v |-> <payload>]:       *)
(*   str   : a TLA+ string                                                 *)
(*   list  : a sequence of values                                          *)
(*   tuple : a sequence of values                                          *)
(*   set   : a set of values                                               *)
(*   dict  : a sequence of <<key, value>> pairs with distinct keys, in     *)
(*           insertion order                                               *)
(*   none  : None                                                          *)
(* An evaluation that may raise yields [ok |-> TRUE, v |-> value] or       *)
(* [ok |-> FALSE, exc |-> <exception type>, msg |-> <text of the message>].*)
(***************************************************************************)
EXTENDS Integers, Sequences, FiniteSets, TLC

\* ------------------------------------------------------------ values

Str(s) == [t |-> "str", v |-> s]
List(q) == [t |-> "list", v |-> q]
Tuple(q) == [t |-> "tuple", v |-> q]
PySet(S) == [t |-> "set", v |-> S]
Dict(q) == [t |-> "dict", v |-> q]
None == [t |-> "none", v |-> ""]

Ok(v) == [ok |-> TRUE, v |-> v]
Raise(exc, msg) == [ok |-> FALSE, exc |-> exc, msg |-> msg]

Range(q) == {q[i] : i \in 1..Len(q)}

\* The characters of a str, as one-character strs (iteration over a str).
Chars(s) == [i \in 1..Len(s) |-> Str(SubSeq(s, i, i))]

\* iter(v): the elements a for loop, an unpacking, dict() or set() draws.
Iter(v) ==
  CASE v.t = "str" -> Chars(v.v)
    [] v.t \in {"list", "tuple"} -> v.v
    [] v.t = "dict" -> [i \in 1..Len(v.v) |-> v.v[i][1]]
    [] OTHER -> <<>>

RECURSIVE Hashable(_)
\* hash(v) succeeds: strs, None, and tuples of hashable values.
Hashable(v) ==
  CASE v.t \in {"str", "none"} -> TRUE
    [] v.t = "tuple" -> \A i \in 1..Len(v.v) : Hashable(v.v[i])
    [] OTHER -> FALSE

\* ------------------------------------------------------------ dict

DictKeys(d) == [i \in 1..Len(d.v) |-> d.v[i][1]]
DictHas(d, k) == \E i \in 1..Len(d.v) : d.v[i][1] = k
DictGet(d, k) == d.v[CHOOSE i \in 1..Len(d.v) : d.v[i][1] = k][2]
\* d[k] = x: an existing key keeps its place, a new key goes last.
DictSet(d, k, x) ==
  IF DictHas(d, k)
    THEN Dict([i \in 1..Len(d.v) |-> IF d.v[i][1] = k THEN <<k, x>> ELSE d.v[i]])
    ELSE Dict(Append(d.v, <<k, x>>))

\* a == b of two values: dicts compare as mappings, everything else by
\* type and content (a list never equals a tuple or a set).
PyEq(a, b) ==
  IF a.t = "dict" /\ b.t = "dict" THEN Range(a.v) = Range(b.v) ELSE a = b

\* ------------------------------------------------------------ ast.literal_eval

Quote == "\""
Backslash == "\\"
IdentChars == {"a", "b", "c", "d", "e", "f", "g", "h", "i", "j", "k", "l", "m",
               "n", "o", "p", "q", "r", "s", "t", "u", "v", "w", "x", "y", "z",
               "A", "B", "C", "D", "E", "F", "G", "H", "I", "J", "K", "L", "M",
               "N", "O", "P", "Q", "R", "S", "T", "U", "V", "W", "X", "Y", "Z", "_"}

At(s, i) == IF i >= 1 /\ i <= Len(s) THEN SubSeq(s, i, i) ELSE ""

Parsed(v, pos) == [ok |-> TRUE, v |-> v, pos |-> pos]

RECURSIVE SkipWs(_, _)
SkipWs(s, i) == IF At(s, i) = " " THEN SkipWs(s, i + 1) ELSE i

RECURSIVE ScanStr(_, _, _)
\* The body of a double-quoted string from position i, acc the characters
\* read so far: a backslash takes the next character with it.
ScanStr(s, i, acc) ==
  LET c == At(s, i) IN
  IF c = "" THEN Raise("SyntaxError", "unterminated string literal")
  ELSE IF c = Quote THEN Parsed(Str(acc), i + 1)
  ELSE IF c = Backslash
    THEN IF At(s, i + 1) = ""
           THEN Raise("SyntaxError", "unterminated string literal")
           ELSE IF At(s, i + 1) \in {Quote, Backslash}
             THEN ScanStr(s, i + 2, acc \o At(s, i + 1))
             ELSE ScanStr(s, i + 2, acc \o c \o At(s, i + 1))
  ELSE ScanStr(s, i + 1, acc \o c)

RECURSIVE ParseExpr(_, _)
RECURSIVE ParseItems(_, _, _, _, _)

\* One expression of the literal grammar starting at position i.
ParseExpr(s, i0) ==
  LET i == SkipWs(s, i0)
      c == At(s, i)
  IN
  IF c = Quote THEN ScanStr(s, i + 1, "")
  ELSE IF c = "[" THEN
    LET r == ParseItems(s, i + 1, "]", <<>>, FALSE)
    IN IF r.ok THEN Parsed(List(r.v), r.pos) ELSE r
  ELSE IF c = "(" THEN
    LET r == ParseItems(s, i + 1, ")", <<>>, FALSE)
    IN IF ~r.ok THEN r
       ELSE IF Len(r.v) = 1 /\ ~r.comma THEN Parsed(r.v[1], r.pos)
       ELSE Parsed(Tuple(r.v), r.pos)
  ELSE IF c \in IdentChars THEN
    \* a name or a call: it compiles, and literal_eval refuses the node
    Raise("ValueError", "malformed node or string")
  ELSE Raise("SyntaxError", "invalid syntax")

\* The comma-separated expressions up to the closing character `close`
\* ("" closes at the end of the text).
ParseItems(s, i0, close, acc, comma) ==
  LET i == SkipWs(s, i0)
      c == At(s, i)
  IN
  IF c = close THEN
    [ok |-> TRUE, v |-> acc, comma |-> comma, pos |-> i + 1]
  ELSE IF c = "" \/ c \in {")", "]", ","} THEN
    Raise("SyntaxError", "invalid syntax")
  ELSE
    LET e == ParseExpr(s, i) IN
    IF ~e.ok THEN e
    ELSE
      LET j == SkipWs(s, e.pos)
          d == At(s, j)
      IN
      IF d = "," THEN ParseItems(s, j + 1, close, Append(acc, e.v), TRUE)
      ELSE IF d = close THEN
        [ok |-> TRUE, v |-> Append(acc, e.v), comma |-> comma, pos |-> j + 1]
      ELSE Raise("SyntaxError", "invalid syntax")

\* ast.literal_eval(s): the whole text is one expression, or several
\* separated by commas, which make a tuple.
literal_eval(s) ==
  LET r == ParseItems(s, 1, "", <<>>, FALSE) IN
  IF ~r.ok THEN r
  ELSE IF Len(r.v) = 0 THEN Raise("SyntaxError", "invalid syntax")
  ELSE IF Len(r.v) = 1 /\ ~r.comma THEN Ok(r.v[1])
  ELSE Ok(Tuple(r.v))

\* ------------------------------------------------------------ parse_derivation

\* v[i] for a 0-based index i >= 0.
GetItem(v, i) ==
  IF v.t \in {"str", "list", "tuple"}
    THEN IF i < Len(Iter(v)) THEN Ok(Iter(v)[i + 1])
         ELSE Raise("IndexError", "index out of range")
    ELSE Raise("TypeError", "object is not subscriptable")

\* a, b, ... = v with n targets.
Unpack(v, n) ==
  IF v.t \notin {"str", "list", "tuple", "dict"}
    THEN Raise("TypeError", "cannot unpack non-iterable object")
  ELSE IF Len(Iter(v)) < n THEN Raise("ValueError", "not enough values to unpack")
  ELSE IF Len(Iter(v)) > n THEN Raise("ValueError", "too many values to unpack")
  ELSE Ok(Iter(v))

RECURSIVE FoldOutputs(_, _, _)
\* {name: path if hashtype == "" else (path, hashtype, hash_)
\*  for name, path, hashtype, hash_ in q}, from entry i on.
FoldOutputs(q, i, acc) ==
  IF i > Len(q) THEN Ok(acc)
  ELSE
    LET u == Unpack(q[i], 4) IN
    IF ~u.ok THEN u
    ELSE IF ~Hashable(u.v[1]) THEN Raise("TypeError", "unhashable type")
    ELSE FoldOutputs(q, i + 1,
           DictSet(acc, u.v[1],
                   IF u.v[3] = Str("") THEN u.v[2]
                   ELSE Tuple(<<u.v[2], u.v[3], u.v[4]>>)))

RECURSIVE FoldDict(_, _, _)
\* dict(q): every element is a pair; a later pair of a key replaces its value.
FoldDict(q, i, acc) ==
  IF i > Len(q) THEN Ok(acc)
  ELSE
    LET u == Unpack(q[i], 2) IN
    IF ~u.ok THEN
      IF u.exc = "ValueError"
        THEN Raise("ValueError", "dictionary update sequence element has the wrong length")
        ELSE u
    ELSE IF ~Hashable(u.v[1]) THEN Raise("TypeError", "unhashable type")
    ELSE FoldDict(q, i + 1, DictSet(acc, u.v[1], u.v[2]))

\* dict(v)
ToDict(v) ==
  IF v.t = "dict" THEN Ok(v)
  ELSE IF v.t \notin {"str", "list", "tuple"}
    THEN Raise("TypeError", "object is not iterable")
  ELSE FoldDict(Iter(v), 1, Dict(<<>>))

\* set(v)
ToSet(v) ==
  IF v.t = "set" THEN Ok(v)
  ELSE IF v.t \notin {"str", "list", "tuple", "dict"}
    THEN Raise("TypeError", "object is not iterable")
  ELSE IF \E i \in 1..Len(Iter(v)) : ~Hashable(Iter(v)[i])
    THEN Raise("TypeError", "unhashable type")
  ELSE Ok(PySet(Range(Iter(v))))

\* Derivation.__init__: the instance's __dict__. The path argument is
\* accepted and not stored.
Derivation(path, outputs, input_derivations, input_files, system, builder, builder_args, environment) ==
  [outputs |-> outputs,
   input_derivations |-> input_derivations,
   input_files |-> input_files,
   system |-> system,
   builder |-> builder,
   builder_args |-> builder_args,
   environment |-> environment]

Fields == {"outputs", "input_derivations", "input_files", "system", "builder",
           "builder_args", "environment"}

\* The text ast.literal_eval is given: "Derive(" and the last character
\* are cut off a text that starts with "Derive([".
TrimDerive(derivation_string) ==
  IF Len(derivation_string) >= 8 /\ SubSeq(derivation_string, 1, 8) = "Derive(["
    THEN SubSeq(derivation_string, 8, Len(derivation_string) - 1)
    ELSE derivation_string

\* The first exception among the outcomes q of a sequence of statements,
\* or Ok(None).
RECURSIVE FirstError(_, _)
FirstError(q, i) ==
  IF i > Len(q) THEN Ok(None)
  ELSE IF ~q[i].ok THEN q[i]
  ELSE FirstError(q, i + 1)

\* derivation_list[i], run through `kind`: the comprehension of outputs,
\* dict(), set(), or nothing.
Element(derivation_list, i, kind) ==
  LET g == GetItem(derivation_list, i) IN
  IF ~g.ok THEN g
  ELSE IF kind = "outputs" THEN
    IF g.v.t \in {"str", "list", "tuple"}
      THEN FoldOutputs(Iter(g.v), 1, Dict(<<>>))
      ELSE Raise("TypeError", "object is not iterable")
  ELSE IF kind = "dict" THEN ToDict(g.v)
  ELSE IF kind = "set" THEN ToSet(g.v)
  ELSE g

\* The statements of parse_derivation after literal_eval, in their order.
Statements(derivation_list) ==
  << Element(derivation_list, 0, "outputs"),
     Element(derivation_list, 1, "dict"),
     Element(derivation_list, 2, "set"),
     Element(derivation_list, 3, ""),
     Element(derivation_list, 4, ""),
     Element(derivation_list, 5, ""),
     Element(derivation_list, 6, "dict") >>

\* The return statement of parse_derivation, reached when no statement
\* before it (outcomes st, the first exception among them err) raised.
Construct(st, err, derivation_path) ==
  IF ~err.ok THEN err
  ELSE Ok(Derivation(derivation_path, st[1].v, st[2].v, st[3].v, st[4].v,
                     st[5].v, st[6].v, st[7].v))

FromStatements(st, derivation_path) ==
  Construct(st, FirstError(st, 1), derivation_path)

\* parse_derivation from the outcome le of literal_eval on.
FromLiteral(le, derivation_path) ==
  IF ~le.ok THEN le ELSE FromStatements(Statements(le.v), derivation_path)

\* Derivation.parse_derivation: the first exception of the statements, in
\* their order, or the Derivation.
parse_derivation(derivation_string, derivation_path) ==
  FromLiteral(literal_eval(TrimDerive(derivation_string)), derivation_path)

\* ------------------------------------------------------------ the files

\* The pieces of a derivation text.
OutsA == "[(\"out\",\"/s/a\",\"\",\"\"),(\"dev\",\"/s/ad\",\"\",\"\")]"
OutsA2 == "[(\"dev\",\"/s/xd\",\"\",\"\"),(\"out\",\"/s/x\",\"sha256\",\"h\")]"
OutsB == "[(\"out\",\"/s/b\",\"sha256\",\"h\")]"
OutsE == "[(\"out\",\"/store/abc-foo\",\"\",\"\")]"
OutsD == "[(\"out\",\"/s/d\",\"\",\"\")]"
DrvsA == "[(\"/nix/store/b.drv\",[\"out\"])]"
DrvsB == "[(\"a.drv\",[\"out\"]),(\"/nix/store/b.drv\",[\"out\"])]"
DrvsD == "[(\"/nix/store/e.drv\",[\"out\"]),(\"d2.drv\",[\"out\"])]"
FilesFG == "[\"/s/f\",\"/s/g\"]"
FilesGF == "[\"/s/g\",\"/s/f\"]"
FilesE == "[\"/store/src-bar\"]"
ArgsCX == "[\"-c\",\"x\"]"
ArgsXC == "[\"x\",\"-c\"]"
ArgsE == "[\"-c\",\"echo hi\"]"
EnvA == "[(\"name\",\"a\")]"
EnvE == "[(\"name\",\"foo\")]"
Sys == "\"x86_64-linux\""
Sh == "\"/bin/sh\""

Body(outs, drvs, files, args, env) ==
  outs \o "," \o drvs \o "," \o files \o "," \o Sys \o "," \o Sh \o ","
       \o args \o "," \o env

Drv(outs, drvs, files, args, env) ==
  "Derive(" \o Body(outs, drvs, files, args, env) \o ")"

NixStore == "/nix/store"

\* The derivation files of the store, in the order they are added to it.
Catalogue ==
  << <<"/nix/store/a.drv", Drv(OutsA, DrvsA, FilesFG, ArgsCX, EnvA)>>,
     \* a.drv with other output paths, one of them fixed-output
     <<"/nix/store/a2.drv", Drv(OutsA2, DrvsA, FilesFG, ArgsCX, EnvA)>>,
     \* a.drv with the builder arguments in the other order
     <<"/nix/store/a3.drv", Drv(OutsA, DrvsA, FilesFG, ArgsXC, EnvA)>>,
     \* a.drv with the input files listed in the other order
     <<"/nix/store/a4.drv", Drv(OutsA, DrvsA, FilesGF, ArgsCX, EnvA)>>,
     \* a fixed-output derivation that refers to a.drv and to itself
     <<"/nix/store/b.drv", Drv(OutsB, DrvsB, "[]", "[]", EnvA)>>,
     \* the example of the specification: no input derivations
     <<"/nix/store/e.drv", Drv(OutsE, "[]", FilesE, ArgsE, EnvE)>>,
     <<"/nix/store/d2.drv", Drv(OutsD, "[]", "[]", "[]", EnvE)>>,
     \* refers to e.drv and d2.drv, which refer to nothing
     <<"/nix/store/d.drv", Drv(OutsD, DrvsD, "[]", "[]", EnvE)>>,
     \* eight elements, and no name in the environment
     <<"/nix/store/m8.drv", Drv(OutsD, "[]", "[]", "[]", "[],[]")>>,
     \* six elements
     <<"/nix/store/m6.drv", "Derive(" \o OutsD \o ",[],[]," \o Sys \o "," \o Sh \o ",[])">>,
     \* closed by a bracket instead of the parenthesis
     <<"/nix/store/mb.drv", "Derive(" \o Body(OutsD, "[]", "[]", "[]", "[]") \o "]">>,
     \* an outputs entry of three elements
     <<"/nix/store/mo.drv", Drv("[(\"out\",\"/s/d\",\"\")]", "[]", "[]", "[]", EnvE)>>,
     \* an environment entry of three elements
     <<"/nix/store/me.drv", Drv(OutsD, "[]", "[]", "[]", "[(\"name\",\"foo\",\"x\")]")>>,
     \* an input-derivation entry of one element
     <<"/nix/store/mi.drv", Drv(OutsD, "[(\"/nix/store/e.drv\",)]", "[]", "[]", EnvE)>>,
     \* a bracket that is never closed
     <<"/nix/store/mu.drv", Drv(OutsD, "[", "[]", "[]", EnvE)>>,
     \* a quote that is never closed
     <<"/nix/store/mq.drv", Drv(OutsD, "[]", "[\"/s/f]", "[]", EnvE)>>,
     \* a token that is no string
     <<"/nix/store/mt.drv", Drv(OutsD, "[]", "[]", "[builder]", EnvE)>>,
     <<"/nix/store/z.drv", Drv(OutsE, "[]", FilesGF, ArgsXC, EnvE)>> >>

\* How many files of the catalogue the store holds.
NumFiles == 17

FilePaths == {Catalogue[i][1] : i \in 1..NumFiles}
FileIndex(p) == CHOOSE i \in 1..NumFiles : Catalogue[i][1] = p
FileText(p) == Catalogue[FileIndex(p)][2]

\* ------------------------------------------------------------ parse_derivation_file

\* os.path.isabs
isabs(p) == At(p, 1) = "/"

\* os.path.join(a, b) for a b that is not absolute
join(a, b) ==
  IF a = "" \/ At(a, Len(a)) = "/" THEN a \o b ELSE a \o "/" \o b

Unset == "<unset>"

\* The path that is opened: joined to NIX_STORE when it is not absolute
\* and the variable is set.
ResolvePath(derivation_path, nix_store) ==
  IF ~isabs(derivation_path) /\ nix_store /= Unset
    THEN join(nix_store, derivation_path)
    ELSE derivation_path

\* "Couldn't parse derivation at path {}: {}".format(path, repr(e))
WrappedMessage(path, e) ==
  "Couldn't parse derivation at path " \o path \o ": "
    \o e.exc \o "('" \o e.msg \o "')"

\* except Exception as e: raise ValueError(...)
Wrap(r, path) ==
  IF r.ok THEN r ELSE Raise("ValueError", WrappedMessage(path, r))

\* parse_derivation(text, path) of every file of the store, evaluated once.
ParsedText ==
  [i \in 1..NumFiles |-> parse_derivation(Catalogue[i][2], Catalogue[i][1])]

\* Derivation.parse_derivation_file: open() fails outside the try, any
\* exception of parse_derivation is replaced by a ValueError naming the path.
ReadAndParse(path) ==
  IF path \notin FilePaths
    THEN Raise("FileNotFoundError", "No such file or directory")
    ELSE Wrap(ParsedText[FileIndex(path)], path)

parse_derivation_file(derivation_path, nix_store) ==
  ReadAndParse(ResolvePath(derivation_path, nix_store))


\* ------------------------------------------------------------ the derived views

\* Derivation.name
name(self) ==
  IF self.environment.t /= "dict"
    THEN Raise("TypeError", "indices must be integers")
  ELSE IF DictHas(self.environment, Str("name"))
    THEN Ok(DictGet(self.environment, Str("name")))
    ELSE Raise("KeyError", "name")

\* Derivation.output_names
output_names(self) ==
  IF self.outputs.t = "dict"
    THEN Ok(PySet(Range(DictKeys(self.outputs))))
    ELSE Raise("AttributeError", "object has no attribute 'keys'")

RECURSIVE AddOutputs(_, _, _, _)
\* for output in outputs: paths.add(input_deriv.outputs[output]),
\* from the i-th requested output on.
AddOutputs(paths, input_deriv, outputs, i) ==
  IF i > Len(outputs) THEN Ok(paths)
  ELSE IF ~Hashable(outputs[i]) THEN Raise("TypeError", "unhashable type")
  ELSE IF ~DictHas(input_deriv.outputs, outputs[i]) THEN Raise("KeyError", "output")
  ELSE IF ~Hashable(DictGet(input_deriv.outputs, outputs[i]))
    THEN Raise("TypeError", "unhashable type")
  ELSE AddOutputs(paths \cup {DictGet(input_deriv.outputs, outputs[i])},
                  input_deriv, outputs, i + 1)

\* One turn of the loop of Derivation.input_paths over the item
\* (deriv_path, outputs): the file is parsed and the stored values of
\* the requested outputs are added to paths. `nested` are the items of a
\* call of input_paths that the turn would make on input_deriv: none.
\* input_paths as a recursive closure: the inputs of the input derivation
\* are visited in their turn.
Resolved_Recursive(r, input_deriv) ==
  IF ~r.ok THEN r
  ELSE Ok([paths |-> r.v, nested |-> input_deriv.input_derivations.v])

Resolved(r, input_deriv) ==
  IF ~r.ok THEN r ELSE Ok([paths |-> r.v, nested |-> <<>>])

AddRequested(paths, input_deriv, outputs) ==
  IF ~input_deriv.ok THEN input_deriv
  ELSE IF outputs.t \notin {"str", "list", "tuple", "dict"}
    THEN Raise("TypeError", "object is not iterable")
  ELSE Resolved(AddOutputs(paths, input_deriv.v, Iter(outputs), 1), input_deriv.v)

ResolveInput(paths, deriv_path, outputs, nix_store) ==
  IF deriv_path.t /= "str" THEN Raise("TypeError", "expected str")
  ELSE AddRequested(paths, parse_derivation_file(deriv_path.v, nix_store), outputs)

\* paths = set(self.input_files)
InitialPaths(self) ==
  IF self.input_files.t = "set" THEN self.input_files.v
  ELSE Range(self.input_files.v)

RECURSIVE RunItems(_, _, _)
RECURSIVE Continue(_, _, _)
\* The loop of input_paths over the items that are left.
RunItems(paths, items, nix_store) ==
  IF items = <<>> THEN Ok(PySet(paths))
  ELSE Continue(ResolveInput(paths, Head(items)[1], Head(items)[2], nix_store),
                Tail(items), nix_store)

Continue(r, rest, nix_store) ==
  IF ~r.ok THEN r ELSE RunItems(r.v.paths, r.v.nested \o rest, nix_store)

\* Derivation.input_paths, from entry to return
input_paths(self, nix_store) ==
  RunItems(InitialPaths(self), self.input_derivations.v, nix_store)

\* ------------------------------------------------------------ to_dict, ==, diff

\* The sequences that list the elements of a set once each: the orders
\* list(a_set) may produce.
Orders(S) == {q \in [1..Cardinality(S) -> S] : Range(q) = S}

\* Derivation.to_dict: the instance's own __dict__ with every set and
\* tuple value replaced by a list; `order` is the order the set of
\* input_files is iterated in.
to_dict(self, order) ==
  [f \in DOMAIN self |->
     IF self[f].t = "set" THEN List(order)
     ELSE IF self[f].t = "tuple" THEN List(self[f].v)
     ELSE self[f]]

\* The orders to_dict may draw for an instance.
ToDictOrders(self) ==
  IF self.input_files.t = "set" THEN Orders(self.input_files.v) ELSE {<<>>}

\* Derivation.__eq__: vars(self) == vars(other)
Derivation_eq(self, other) ==
  /\ DOMAIN self = DOMAIN other
  /\ \A f \in DOMAIN self : PyEq(self[f], other[f])

\* The characters of output names, in the order of their code points.
CodeOrder == "-./0123456789ABCDEFGHIJKLMNOPQRSTUVWXYZ_abcdefghijklmnopqrstuvwxyz"
Ord(c) == CHOOSE i \in 1..Len(CodeOrder) : SubSeq(CodeOrder, i, i) = c

RECURSIVE StrLess(_, _)
\* a < b of two strs
StrLess(a, b) ==
  IF b = "" THEN FALSE
  ELSE IF a = "" THEN TRUE
  ELSE IF Head(a) = Head(b) THEN StrLess(Tail(a), Tail(b))
  ELSE Ord(At(a, 1)) < Ord(At(b, 1))

RECURSIVE Insert(_, _)
Insert(sortedq, k) ==
  IF sortedq = <<>> THEN <<k>>
  ELSE IF StrLess(k.v, Head(sortedq).v) THEN <<k>> \o sortedq
  ELSE <<Head(sortedq)>> \o Insert(Tail(sortedq), k)

RECURSIVE SortFrom(_, _, _)
SortFrom(q, i, acc) ==
  IF i > Len(q) THEN acc ELSE SortFrom(q, i + 1, Insert(acc, q[i]))

\* list(sorted(d.keys())): keys that are not all strs do not compare.
SortedKeys(d) ==
  IF d.t /= "dict" THEN Raise("AttributeError", "object has no attribute 'keys'")
  ELSE IF Len(d.v) > 1 /\ \E i \in 1..Len(d.v) : d.v[i][1].t /= "str"
    THEN Raise("TypeError", "'<' not supported")
  ELSE Ok(List(SortFrom(DictKeys(d), 1, <<>>)))

\* datadiff.diff of two mappings with the same keys: the keys whose
\* values are not equal.
DataDiff(selfdict, otherdict) ==
  [t |-> "datadiff",
   v |-> {f \in DOMAIN selfdict : ~PyEq(selfdict[f], otherdict[f])}]

\* ------------------------------------------------------------ display

RECURSIVE JsonOk(_)
\* json.dumps accepts the value.
JsonOk(v) ==
  CASE v.t \in {"str", "none"} -> TRUE
    [] v.t \in {"list", "tuple"} -> \A i \in 1..Len(v.v) : JsonOk(v.v[i])
    [] v.t = "dict" -> \A i \in 1..Len(v.v) :
                          v.v[i][1].t \in {"str", "none"} /\ JsonOk(v.v[i][2])
    [] OTHER -> FALSE

RECURSIVE JsonView(_)
\* What a JSON text keeps of a value: a tuple is written as an array.
JsonView(v) ==
  CASE v.t \in {"list", "tuple"} -> List([i \in 1..Len(v.v) |-> JsonView(v.v[i])])
    [] v.t = "dict" ->
         Dict([i \in 1..Len(v.v) |-> <<v.v[i][1], JsonView(v.v[i][2])>>])
    [] OTHER -> v

\* The order of the keys of an instance's __dict__.
FieldOrder == <<"outputs", "input_derivations", "input_files", "system",
                "builder", "builder_args", "environment">>

\* vars(self) as a value
AsDict(selfdict) ==
  Dict([i \in 1..Len(FieldOrder) |-> <<Str(FieldOrder[i]), selfdict[FieldOrder[i]]>>])

Text(format, style, v) == [t |-> "text", format |-> format, style |-> style, v |-> v]

json_dumps(to_print, style) ==
  IF JsonOk(to_print) THEN Ok(Text("json", style, JsonView(to_print)))
  ELSE Raise("TypeError", "not JSON serializable")

yaml_dump(to_print, style) == Ok(Text("yaml", style, to_print))

\* What display selects from selfdict, the result of to_dict.
Select(selfdict, attribute, env_var) ==
  IF attribute = None /\ env_var = None THEN Ok(AsDict(selfdict))
  ELSE IF attribute /= None THEN
    IF attribute.v \in DOMAIN selfdict THEN Ok(selfdict[attribute.v])
    ELSE Raise("KeyError", attribute.v)
  ELSE IF selfdict.environment.t /= "dict"
    THEN Raise("TypeError", "indices must be integers")
  ELSE IF DictHas(selfdict.environment, env_var)
    THEN Ok(DictGet(selfdict.environment, env_var))
    ELSE Raise("KeyError", env_var.v)

\* Derivation.display from the selection on.
\* display with the format validated before anything is returned.
Encode_FormatFirst(to_print, format, pretty) ==
  IF ~to_print.ok THEN to_print
  ELSE IF format \notin {"json", "yaml"}
    THEN Raise("ValueError", "Invalid format: " \o format)
  ELSE IF to_print.v.t = "str" /\ pretty THEN Ok(to_print.v)
  ELSE IF format = "json" THEN
    IF pretty THEN json_dumps(to_print.v, "indent=2")
    ELSE json_dumps(to_print.v, "compact")
  ELSE IF pretty THEN yaml_dump(to_print.v, "rtyaml")
  ELSE yaml_dump(to_print.v, "yaml")

Encode(to_print, format, pretty) ==
  IF ~to_print.ok THEN to_print
  ELSE IF to_print.v.t = "str" /\ pretty THEN Ok(to_print.v)
  ELSE IF format = "json" THEN
    IF pretty THEN json_dumps(to_print.v, "indent=2")
    ELSE json_dumps(to_print.v, "compact")
  ELSE IF format = "yaml" THEN
    IF pretty THEN yaml_dump(to_print.v, "rtyaml")
    ELSE yaml_dump(to_print.v, "yaml")
  ELSE Raise("ValueError", "Invalid format: " \o format)

\* Derivation.display after its call of to_dict.
display(selfdict, attribute, env_var, format, pretty) ==
  Encode(Select(selfdict, attribute, env_var), format, pretty)


\* ------------------------------------------------------------ the state

VARIABLES
  environ,  \* the value of NIX_STORE in os.environ, or Unset
  heap,     \* the __dict__ of the Derivation each variable is bound to
  parsed,   \* per variable: the path given to the constructor, the text
            \* parsed, and the __dict__ as the constructor left it
  last,     \* the last call that ended: its arguments and its outcome
  call      \* the call of input_paths that is running, if any

vars == <<environ, heap, parsed, last, call>>

\* The variables of main(): first and second.
Slots == {"first", "second"}

Unbound == [unbound |-> TRUE]
Idle == [pc |-> "idle"]
Bool(b) == [t |-> "bool", v |-> IF b THEN "True" ELSE "False"]

\* The format main() passes when neither --json nor --yaml is given.
DefaultFormat == "string"

Pending == [ok |-> FALSE, exc |-> "", msg |-> "running"]

Init ==
  /\ environ \in {Unset, NixStore}
  /\ heap = [s \in Slots |-> Unbound]
  /\ parsed = [s \in Slots |-> Unbound]
  /\ last = [op |-> "none"]
  /\ call = Idle

\* slot = <the outcome r of parsing the text at path>: an exception
\* leaves the variable as it was.
Bind(slot, op, r, path) ==
  /\ heap' = IF r.ok THEN [heap EXCEPT ![slot] = r.v] ELSE heap
  /\ parsed' = IF r.ok
                 THEN [parsed EXCEPT ![slot] =
                         [path |-> path, text |-> FileText(path), dict |-> r.v]]
                 ELSE parsed
  /\ last' = [op |-> op, slot |-> slot, path |-> path,
              text |-> IF path \in FilePaths THEN FileText(path) ELSE "",
              res |-> IF r.ok THEN Ok(None) ELSE r]

\* slot = Derivation.parse_derivation_file(path)
ParseFile(slot, path) ==
  /\ call = Idle
  /\ Bind(slot, "parse_derivation_file", parse_derivation_file(path, environ),
          ResolvePath(path, environ))
  /\ UNCHANGED <<environ, call>>

\* slot = Derivation.parse_derivation(text, path), with the text of a file
ParseString(slot, path) ==
  /\ call = Idle
  /\ Bind(slot, "parse_derivation", ParsedText[FileIndex(path)], path)
  /\ UNCHANGED <<environ, call>>

\* slot.name
Name(slot) ==
  /\ call = Idle
  /\ heap[slot] /= Unbound
  /\ last' = [op |-> "name", slot |-> slot, res |-> name(heap[slot])]
  /\ UNCHANGED <<environ, heap, parsed, call>>

\* slot.output_names
OutputNames(slot) ==
  /\ call = Idle
  /\ heap[slot] /= Unbound
  /\ last' = [op |-> "output_names", slot |-> slot, res |-> output_names(heap[slot])]
  /\ UNCHANGED <<environ, heap, parsed, call>>

\* slot.input_paths is entered: paths = set(self.input_files), and the
\* loop is over the items of input_derivations.
InputPathsCall(slot) ==
  /\ call = Idle
  /\ heap[slot] /= Unbound
  /\ call' = [pc |-> "loop", slot |-> slot,
              paths |-> InitialPaths(heap[slot]),
              items |-> heap[slot].input_derivations.v,
              reads |-> 0]
  /\ last' = [op |-> "input_paths", slot |-> slot, reads |-> 0, res |-> Pending]
  /\ UNCHANGED <<environ, heap, parsed>>

\* One turn of the loop of input_paths; an exception ends the call.
Turn(r, read) ==
  IF r.ok
    THEN /\ call' = [call EXCEPT !.paths = r.v.paths,
                                 !.items = r.v.nested \o Tail(call.items),
                                 !.reads = call.reads + read]
         /\ last' = last
    ELSE /\ call' = Idle
         /\ last' = [op |-> "input_paths", slot |-> call.slot,
                     reads |-> call.reads + read, res |-> r]

\* Whether the turn for the item with key deriv_path reads a file.
Reads(deriv_path) ==
  IF deriv_path.t = "str" /\ ResolvePath(deriv_path.v, environ) \in FilePaths
    THEN 1 ELSE 0

InputPathsTurn ==
  /\ call /= Idle
  /\ call.items /= <<>>
  /\ Turn(ResolveInput(call.paths, Head(call.items)[1], Head(call.items)[2], environ),
          Reads(Head(call.items)[1]))
  /\ UNCHANGED <<environ, heap, parsed>>

\* input_paths returns paths.
InputPathsReturn ==
  /\ call /= Idle
  /\ call.items = <<>>
  /\ last' = [op |-> "input_paths", slot |-> call.slot, reads |-> call.reads,
              res |-> Ok(PySet(call.paths))]
  /\ call' = Idle
  /\ UNCHANGED <<environ, heap, parsed>>

\* slot == other
Eq(slot, other) ==
  /\ call = Idle
  /\ heap[slot] /= Unbound /\ heap[other] /= Unbound
  /\ last' = [op |-> "eq", slot |-> slot, other |-> other,
              res |-> Ok(Bool(Derivation_eq(heap[slot], heap[other])))]
  /\ UNCHANGED <<environ, heap, parsed, call>>

\* slot.to_dict()
ToDictCall(slot) ==
  /\ call = Idle
  /\ heap[slot] /= Unbound
  /\ \E order \in ToDictOrders(heap[slot]) :
       /\ heap' = [heap EXCEPT ![slot] = to_dict(heap[slot], order)]
       /\ last' = [op |-> "to_dict", slot |-> slot, res |-> Ok(AsDict(heap'[slot]))]
  /\ UNCHANGED <<environ, parsed, call>>

\* Derivation.diff on the instances the variables self and other are
\* bound to: vars() is the instance's own __dict__, so each assignment of
\* "outputs" changes the instance, the first one before the second is
\* evaluated.
Compare(objects, self, other) ==
  [objects |-> objects, res |-> Ok(DataDiff(objects[self], objects[other]))]

\* otherdict["outputs"] = list(sorted(otherdict["outputs"].keys()))
NormalizeOther(objects, self, other, keys) ==
  IF ~keys.ok THEN [objects |-> objects, res |-> keys]
  ELSE Compare([objects EXCEPT ![other].outputs = keys.v], self, other)

\* selfdict["outputs"] = list(sorted(selfdict["outputs"].keys()))
NormalizeSelf(objects, self, other, keys) ==
  IF ~keys.ok THEN [objects |-> objects, res |-> keys]
  ELSE NormalizeOther([objects EXCEPT ![self].outputs = keys.v], self, other,
         SortedKeys([objects EXCEPT ![self].outputs = keys.v][other].outputs))

diff(objects, self, other) ==
  NormalizeSelf(objects, self, other, SortedKeys(objects[self].outputs))

Differed(slot, other, r) ==
  /\ heap' = r.objects
  /\ last' = [op |-> "diff", slot |-> slot, other |-> other, res |-> r.res]

\* slot.diff(other)
Diff(slot, other) ==
  /\ call = Idle
  /\ heap[slot] /= Unbound /\ heap[other] /= Unbound
  /\ Differed(slot, other, diff(heap, slot, other))
  /\ UNCHANGED <<environ, parsed, call>>

Displayed(slot, selfdict, attribute, env_var, format, pretty) ==
  /\ heap' = [heap EXCEPT ![slot] = selfdict]
  /\ last' = [op |-> "display", slot |-> slot, attribute |-> attribute,
              env_var |-> env_var, format |-> format, pretty |-> pretty,
              res |-> display(selfdict, attribute, env_var, format, pretty)]

\* slot.display(attribute, env_var, format, pretty)
Display(slot, attribute, env_var, format, pretty) ==
  /\ call = Idle
  /\ heap[slot] /= Unbound
  /\ \E order \in ToDictOrders(heap[slot]) :
       Displayed(slot, to_dict(heap[slot], order), attribute, env_var, format, pretty)
  /\ UNCHANGED <<environ, parsed, call>>

\* ------------------------------------------------------------ specifications

\* The files that parse_derivation accepts although they are not of the
\* format, and the files it refuses.
Malformed == {"/nix/store/m8.drv", "/nix/store/m6.drv", "/nix/store/mb.drv",
              "/nix/store/mo.drv", "/nix/store/me.drv", "/nix/store/mi.drv",
              "/nix/store/mu.drv", "/nix/store/mq.drv", "/nix/store/mt.drv"}
Leaves == {"/nix/store/e.drv", "/nix/store/d2.drv", "/nix/store/d.drv"}

\* The diff command and the calls a caller may make before and after it,
\* on the derivations that differ from a.drv in one respect.
DiffPaths == FilePaths \ (Malformed \cup Leaves \cup {"/nix/store/b.drv"})

Next ==
  \/ \E slot \in Slots, path \in DiffPaths : ParseFile(slot, path)
  \/ \E slot \in Slots : Name(slot)
  \/ \E slot \in Slots : OutputNames(slot)
  \/ \E slot \in Slots : InputPathsCall(slot)
  \/ InputPathsTurn
  \/ InputPathsReturn
  \/ \E slot \in Slots, other \in Slots : Eq(slot, other)
  \/ \E slot \in Slots : ToDictCall(slot)
  \/ \E slot \in Slots, other \in Slots : Diff(slot, other)
  \/ \E slot \in Slots : Display(slot, None, None, "json", FALSE)

Spec == Init /\ [][Next]_vars

\* The show command: every selection, format and value of pretty, on
\* derivations in every shape the other calls leave them in.
ShowPaths == FilePaths \ ((Malformed \ {"/nix/store/m8.drv"}) \cup
               {"/nix/store/a.drv", "/nix/store/a2.drv", "/nix/store/a3.drv",
                "/nix/store/d.drv", "/nix/store/d2.drv"})
Attributes == {None, Str("system"), Str("outputs"), Str("builder_args"), Str("version")}
EnvVars == {None, Str("name")}
Formats == {"json", "yaml", DefaultFormat, "xml"}

NextShow ==
  \/ \E path \in ShowPaths : ParseFile("first", path)
  \/ ToDictCall("first")
  \/ Diff("first", "first")
  \/ \E attribute \in Attributes, env_var \in EnvVars, format \in Formats,
        pretty \in BOOLEAN :
       Display("first", attribute, env_var, format, pretty)

SpecShow == Init /\ [][NextShow]_vars

\* Parsing: every file of the store, by path and as a text.
PathArgs == FilePaths \cup {"e.drv", "mt.drv", "/nix/store/none.drv"}

NextParse ==
  \/ \E slot \in Slots, path \in PathArgs : ParseFile(slot, path)
  \/ \E slot \in Slots, path \in FilePaths : ParseString(slot, path)
  \/ \E slot \in Slots : Name(slot)
  \/ \E slot \in Slots : OutputNames(slot)

SpecParse == Init /\ [][NextParse]_vars

\* Closure resolution: input_paths over references that form a cycle
\* (a.drv and b.drv) and references that do not (d.drv).
ClosurePaths == FilePaths \ (Malformed \cup
                  {"/nix/store/a2.drv", "/nix/store/a3.drv", "/nix/store/a4.drv"})

NextClosure ==
  \/ \E path \in ClosurePaths : ParseFile("first", path)
  \/ InputPathsCall("first")
  \/ InputPathsTurn
  \/ InputPathsReturn
  \/ ToDictCall("first")
  \/ Diff("first", "first")

SpecClosure == Init /\ [][NextClosure]_vars

\* ------------------------------------------------------------ claims

KeySet(outputs) ==
  IF outputs.t = "dict" THEN Range(DictKeys(outputs)) ELSE Range(outputs.v)

Bound(slot) == heap[slot] /= Unbound

\* C1: a Derivation is never mutated after construction: whatever calls
\* were made, every stored field of every bound Derivation has the value
\* and the shape the constructor gave it.
C1_NeverMutated ==
  \A slot \in Slots : Bound(slot) => heap[slot] = parsed[slot].dict

\* Two __dict__s that agree in every field but outputs, and have the same
\* output names.
SameButOutputValues(a, b) ==
  /\ \A f \in Fields \ {"outputs"} : PyEq(a[f], b[f])
  /\ KeySet(a.outputs) = KeySet(b.outputs)

\* C2: diff normalization: a call of diff on two derivations that are
\* identical in every field except the values held in outputs (as parsed,
\* and as they are when diff is called), with the same output names,
\* but other values there, reports no difference.
C2_DiffIgnoresOutputValues ==
  [][(/\ last'.op = "diff"
      /\ last'.slot /= last'.other
      /\ SameButOutputValues(parsed[last'.slot].dict, parsed[last'.other].dict)
      /\ ~PyEq(parsed[last'.slot].dict.outputs, parsed[last'.other].dict.outputs)
      /\ SameButOutputValues(heap[last'.slot], heap[last'.other]))
     => (last'.res.ok /\ last'.res.v.v = {})]_vars

\* The path component of a stored output value.
PathOf(v) == IF v.t = "tuple" THEN v.v[1] ELSE v

\* The store paths of the outputs `outputs` of the derivation at deriv_path.
OutputPaths(deriv_path, outputs) ==
  {PathOf(DictGet(parse_derivation_file(deriv_path.v, environ).v.outputs,
                  Iter(outputs)[i])) : i \in 1..Len(Iter(outputs))}

\* The input closure of a __dict__ as the claim defines it.
Closure(d) ==
  d.input_files.v \cup
    UNION {OutputPaths(d.input_derivations.v[i][1], d.input_derivations.v[i][2]) :
             i \in 1..Len(d.input_derivations.v)}

\* C3: when input_paths returns, its result is the input files together
\* with, for every requested output of every input derivation, the
\* store-path string of that output: the path component alone of a
\* fixed-output triple, so every element is a str.
C3_InputPathsArePlainPaths ==
  (last.op = "input_paths" /\ last.res.ok)
    => /\ last.res.v.v = Closure(parsed[last.slot].dict)
       /\ \A e \in last.res.v.v : e.t = "str"

\* C4: after any calls, output_names returns the output names the
\* derivation had when parsed, and input_paths ends as it would have
\* ended right after parsing.
C4_ViewsRecomputed ==
  /\ last.op = "output_names"
       => last.res = Ok(PySet(KeySet(parsed[last.slot].dict.outputs)))
  /\ (last.op = "input_paths" /\ last.res /= Pending)
       => last.res = input_paths(parsed[last.slot].dict, environ)

IsListOf(v, n) ==
  /\ v.t \in {"list", "tuple"}
  /\ \A i \in 1..Len(v.v) :
       /\ v.v[i].t = "tuple"
       /\ Len(v.v[i].v) = n

\* The text between "Derive(" and the closing parenthesis, or the whole
\* text when it has no such prefix; "" when the parenthesis is missing.
Inner(text) ==
  IF Len(text) >= 7 /\ SubSeq(text, 1, 7) = "Derive("
    THEN IF At(text, Len(text)) = ")" THEN SubSeq(text, 8, Len(text) - 1) ELSE ""
    ELSE text

\* The arities of the format: seven elements, output entries of four,
\* input-derivation and environment entries of two.
ArityOk(dl) ==
  /\ dl.t = "tuple"
  /\ Len(dl.v) = 7
  /\ IsListOf(dl.v[1], 4)
  /\ IsListOf(dl.v[2], 2)
  /\ IsListOf(dl.v[7], 2)

WellFormedLiteral(le) == le.ok /\ ArityOk(le.v)

\* A text with no malformed token, no unbalanced bracket or quote and no
\* arity mismatch.
WellFormed(text) == WellFormedLiteral(literal_eval(Inner(text)))

WellFormedFile == [i \in 1..NumFiles |-> WellFormed(Catalogue[i][2])]

PathPrefix(path) == "Couldn't parse derivation at path " \o path

\* C5: parsing a text that is not well formed never returns a Derivation:
\* it fails with the one wrapped error that names the source path.
C5_MalformedRejected ==
  (/\ last.op \in {"parse_derivation_file", "parse_derivation"}
   /\ last.path \in FilePaths
   /\ ~WellFormedFile[FileIndex(last.path)])
    => /\ ~last.res.ok
       /\ last.res.exc = "ValueError"
       /\ Len(last.res.msg) >= Len(PathPrefix(last.path))
       /\ SubSeq(last.res.msg, 1, Len(PathPrefix(last.path))) = PathPrefix(last.path)

InvalidFormat(format) == Raise("ValueError", "Invalid format: " \o format)

\* C6 as stated: display with a format other than "json" and "yaml" fails
\* with the unsupported-format error, whatever the selection and pretty.
C6_UnsupportedFormatRejected ==
  (last.op = "display" /\ last.format \notin {"json", "yaml"})
    => last.res = InvalidFormat(last.format)

Selected(slot, attribute, env_var, format, pretty, res, sel) ==
  IF ~sel.ok THEN res = sel /\ sel.exc = "KeyError"
  ELSE IF sel.v.t = "str" /\ pretty THEN res = Ok(sel.v)
  ELSE res = InvalidFormat(format)

\* C6 as amended: display with a format other than "json" and "yaml" fails
\* with the lookup error when the selection fails, returns the selected
\* value itself when that is a str and pretty is true, and fails with the
\* unsupported-format error in every other case.
C6_UnsupportedFormatRejectedUnlessPrettyStr ==
  (last.op = "display" /\ last.format \notin {"json", "yaml"})
    => Selected(last.slot, last.attribute, last.env_var, last.format,
                last.pretty, last.res,
                Select(heap[last.slot], last.attribute, last.env_var))

\* C6 witness: the whole record shown in the format main() passes by
\* default is refused.
C6_Witness ==
  /\ last.op = "display"
  /\ last.format = DefaultFormat
  /\ last.attribute = None /\ last.env_var = None
  /\ last.res = InvalidFormat(DefaultFormat)

SameButBuilderArgs(a, b) ==
  /\ \A f \in Fields \ {"builder_args"} : PyEq(a[f], b[f])
  /\ ~PyEq(a.builder_args, b.builder_args)

\* C7: a call of diff on two derivations that are identical except for
\* builder_args (one element changed, or the same elements in another
\* order) reports a difference that names builder_args.
C7_DiffReportsBuilderArgs ==
  [][(/\ last'.op = "diff"
      /\ last'.slot /= last'.other
      /\ SameButBuilderArgs(parsed[last'.slot].dict, parsed[last'.other].dict)
      /\ SameButBuilderArgs(heap[last'.slot], heap[last'.other]))
     => (last'.res.ok /\ "builder_args" \in last'.res.v.v)]_vars

LiteralOf == [i \in 1..NumFiles |-> literal_eval(Inner(Catalogue[i][2]))]

SameElements(x, y) ==
  /\ x.t = y.t
  /\ Len(x.v) = Len(y.v)
  /\ Range(x.v) = Range(y.v)

\* Two texts of seven elements that differ in the order of the list of
\* input files and in nothing else.
OnlyInputFileOrderDiffers(x, y) ==
  /\ x.ok /\ y.ok
  /\ Len(x.v.v) = 7 /\ Len(y.v.v) = 7
  /\ \A k \in {1, 2, 4, 5, 6, 7} : x.v.v[k] = y.v.v[k]
  /\ SameElements(x.v.v[3], y.v.v[3])
  /\ x.v.v[3] /= y.v.v[3]

\* C8: diff compares input_files as a set: on two derivations whose texts
\* differ only in the order of the input files it reports no difference.
C8_DiffIgnoresInputFileOrder ==
  (/\ last.op = "diff"
   /\ last.slot /= last.other
   /\ OnlyInputFileOrderDiffers(LiteralOf[FileIndex(parsed[last.slot].path)],
                                LiteralOf[FileIndex(parsed[last.other].path)]))
    => (last.res.ok /\ last.res.v.v = {})

\* C9: a parsed Derivation has a field path that holds the path it was
\* parsed from (resolved against NIX_STORE when parsed from a file).
C9_PathIsStored ==
  \A slot \in Slots :
    Bound(slot) => /\ "path" \in DOMAIN heap[slot]
                   /\ heap[slot].path = Str(parsed[slot].path)

\* The files the file at p refers to in its input_derivations.
Refs(p) ==
  IF ~ParsedText[FileIndex(p)].ok THEN {}
  ELSE {ResolvePath(k.v, environ) :
          k \in {e \in Range(DictKeys(ParsedText[FileIndex(p)].v.input_derivations)) :
                   e.t = "str"}} \cap FilePaths

RECURSIVE Reach(_)
\* The files reachable along references from the files of S.
Reach(S) ==
  IF UNION {Refs(p) : p \in S} \subseteq S THEN S
  ELSE Reach(S \cup UNION {Refs(p) : p \in S})

OnCycle(p) == p \in Reach(Refs(p))

\* C10 as stated: input_paths of a derivation on a cycle of references
\* never returns a result.
C10_CycleNeverReturns ==
  (last.op = "input_paths" /\ OnCycle(parsed[last.slot].path)) => ~last.res.ok

NumInputs(slot) == Len(heap[slot].input_derivations.v)

\* C10 as amended: input_paths does not recurse. While it runs, the files
\* read so far and the items still to visit add up to the keys of the
\* derivation's own input_derivations, so it ends after at most one read
\* and parse per key, on a cycle as on any other graph; when it returns
\* it has read exactly one file per key.
C10_OneReadPerInput ==
  /\ call /= Idle => call.reads + Len(call.items) = NumInputs(call.slot)
  /\ (last.op = "input_paths" /\ last.res /= Pending)
       => /\ last.reads <= NumInputs(last.slot)
          /\ last.res.ok => last.reads = NumInputs(last.slot)

\* C10 witness: input_paths has returned a result for a derivation on a
\* cycle, having read a file.
C10_Witness ==
  /\ last.op = "input_paths"
  /\ last.res.ok
  /\ last.reads >= 1
  /\ OnCycle(parsed[last.slot].path)

========================================================================
